---- MODULE Spec2Model ----
(***************************************************************************)
(* Model of the sandboxed recursive file search of src-tauri/src/lib.rs:   *)
(* search_files, validate_and_normalize_search_path, is_path_allowed,      *)
(* get_allowed_search_paths, sanitize_search_query, search_directory and   *)
(* calculate_relevance_score, run against a small file system with         *)
(* symbolic links, unreadable directories and concurrent removals.         *)
(*                                                                         *)
(* A text is a sequence of characters (one string each), a path is a      *)
(* sequence of segments (texts); the empty path is the root "/".           *)
(***************************************************************************)
EXTENDS Integers, Sequences, FiniteSets, TLC

VARIABLES
    removed,       \* files another process has removed since Init
    unreadable,    \* directories whose listing is refused (read_dir fails)
    flaky,         \* directories whose iterator yields an Err item
    reversed,      \* the platform lists directories in reverse name order
    dirs,          \* what dirs::home_dir() etc. return on this host
    pc,            \* "idle", "walk" or "done"
    call,          \* which entry point was invoked
    request,       \* the arguments of the invocation
    query,         \* the (lowercased) query search_directory works with
    maxResults,    \* max_results of search_directory
    maxDepth,      \* max_depth of search_directory
    rootDir,       \* the dir argument of the outermost search_directory
    stack,         \* activation records of search_directory, innermost last
    results,       \* the shared result vector
    ret,           \* what the invocation returned
    listed,        \* history: directories on which read_dir was called
    examined,      \* history: entry paths that reached the loop body
    failures,      \* history: failures met during the walk
    allowedCheck   \* history: the call of is_path_allowed, if any

vars == <<removed, unreadable, flaky, reversed, dirs, pc, call, request,
          query, maxResults, maxDepth, rootDir, stack, results, ret,
          listed, examined, failures, allowedCheck>>

----------------------------------------------------------------------------
(* Bounds of the model *)

\* symbolic links followed while resolving one path before giving up (ELOOP)
MaxLinkHops == 3
\* largest max_depth handed to search_directory when it is called directly
MaxDepthArg == 3

----------------------------------------------------------------------------
(* Option values *)

None == [some |-> FALSE]
Some(x) == [some |-> TRUE, v |-> x]

Min(a, b) == IF a <= b THEN a ELSE b

----------------------------------------------------------------------------
(* Characters and texts *)

LowerLetters == {"a", "b", "c", "d", "e", "h", "k", "l", "m", "o", "p", "r",
                 "s", "t", "u", "v", "x"}
UpperLetters == {"D", "S", "T", "U"}
Digits == {"2"}
\* U+4E2D, a CJK unified ideograph, written by its code point
Ideographs == {"U+4E2D"}

\* char::to_lowercase on the characters in use
LowerChar(c) ==
    CASE c = "D" -> "d"
      [] c = "S" -> "s"
      [] c = "T" -> "t"
      [] c = "U" -> "u"
      [] OTHER -> c

\* str::to_lowercase
ToLowercase(s) == [i \in 1..Len(s) |-> LowerChar(s[i])]

\* number of bytes of the UTF-8 encoding of a character
Utf8Len(c) == IF c \in Ideographs THEN 3 ELSE 1

RECURSIVE ByteLen(_)
\* str::len, the length in bytes
ByteLen(s) == IF s = <<>> THEN 0 ELSE Utf8Len(Head(s)) + ByteLen(Tail(s))

\* str::starts_with
StartsWith(s, p) == Len(p) <= Len(s) /\ SubSeq(s, 1, Len(p)) = p

\* slip: only a prefix counts as a match
Contains_PrefixOnly(s, p) == Len(p) <= Len(s) /\ SubSeq(s, 1, Len(p)) = p

\* str::contains
Contains(s, p) == \E i \in 0..(Len(s) - Len(p)) : SubSeq(s, i + 1, i + Len(p)) = p

IsAlphanumeric(c) == c \in LowerLetters \cup UpperLetters \cup Digits \cup Ideographs
IsWhitespace(c) == c = " "

\* the filter closure of sanitize_search_query
QueryCharAllowed(c) ==
    \/ IsAlphanumeric(c)
    \/ IsWhitespace(c)
    \/ c \in {"_", "-", ".", "(", ")", "[", "]", "{", "}", "+", "="}
    \/ c \in Ideographs

SanitizeSearchQuery(q) == SelectSeq(q, QueryCharAllowed)

----------------------------------------------------------------------------
(* The file system *)

nHome == <<"h", "o", "m", "e">>
nA == <<"a">>
nA2 == <<"a", "2">>
nL == <<"l">>
nEtc == <<"e", "t", "c">>
nTmp == <<"t", "m", "p">>
nVar == <<"v", "a", "r">>
nUsers == <<"U", "s", "e", "r", "s">>
nShared == <<"S", "h", "a", "r", "e", "d">>
nT == <<"t">>
nDotT == <<".", "t">>
nTildeT == <<"~", "t">>
nTDotT == <<"T", ".", "t">>
nDotS == <<".", "s">>
nS == <<"s">>
nK == <<"k">>
nU == <<"u">>
nX == <<"x">>
nD == <<"D">>
nDotDot == <<".", ".">>
nDot == <<".">>
nXXT == <<"x", "x", "t">>
nIdeoT == <<"U+4E2D", "t">>

pHome == <<nHome, nA>>
pSibling == <<nHome, nA2>>
pEtc == <<nEtc>>
pTmp == <<nTmp>>

DirNode == [kind |-> "dir", target |-> <<>>]
FileNode == [kind |-> "file", target |-> <<>>]
LinkNode(t) == [kind |-> "link", target |-> t]

\* every node of the file system at Init, by its path without links in it
BaseFs ==
    (<<>> :> DirNode)
    @@ (<<nHome>> :> DirNode)
    @@ (pHome :> DirNode)
    @@ (pSibling :> DirNode)
    @@ (pSibling \o <<nT>> :> FileNode)
    @@ (<<nL>> :> LinkNode(pHome))
    @@ (pEtc :> DirNode)
    @@ (pEtc \o <<nT>> :> FileNode)
    @@ (pTmp :> DirNode)
    @@ (pTmp \o <<nT>> :> FileNode)
    @@ (pTmp \o <<nXXT>> :> FileNode)
    @@ (pTmp \o <<nIdeoT>> :> FileNode)
    @@ (<<nVar>> :> DirNode)
    @@ (<<nVar, nTmp>> :> LinkNode(pTmp))
    @@ (pHome \o <<nT>> :> FileNode)
    @@ (pHome \o <<nDotT>> :> FileNode)
    @@ (pHome \o <<nTildeT>> :> FileNode)
    @@ (pHome \o <<nTDotT>> :> FileNode)
    @@ (pHome \o <<nDotS>> :> DirNode)
    @@ (pHome \o <<nDotS, nT>> :> FileNode)
    @@ (pHome \o <<nK>> :> LinkNode(pEtc))
    @@ (pHome \o <<nU>> :> DirNode)
    @@ (pHome \o <<nU, nT>> :> FileNode)
    @@ (pHome \o <<nS>> :> DirNode)
    @@ (pHome \o <<nS, nT>> :> FileNode)
    @@ (pHome \o <<nS, nS>> :> DirNode)
    @@ (pHome \o <<nS, nS, nS>> :> DirNode)
    @@ (pHome \o <<nS, nS, nS, nT>> :> FileNode)
    @@ (pHome \o <<nS, nS, nS, nS>> :> DirNode)
    @@ (pHome \o <<nS, nS, nS, nS, nT>> :> FileNode)

\* files another process may remove while a search runs
Removable == {pHome \o <<nT>>, pHome \o <<nS, nT>>}

\* the order in which the platform lists names (or its reverse)
NameOrder == <<nDotS, nDotT, nXXT, nT, nIdeoT, nU, nTDotT, nK, nS, nTildeT>>

Front(s) == SubSeq(s, 1, Len(s) - 1)
Last(s) == s[Len(s)]
Reverse(s) == [i \in 1..Len(s) |-> s[Len(s) + 1 - i]]

\* the node at a link-free path, if it is there now
NodeAt(p, rem) == IF p \in DOMAIN BaseFs /\ p \notin rem THEN Some(BaseFs[p]) ELSE None

RECURSIVE ResolveFrom(_, _, _, _)
\* Walk the segments `rest` from the canonical directory `cur`, following
\* links and resolving "." and "..": the canonical path, or None.
ResolveFrom(cur, rest, hops, rem) ==
    IF rest = <<>> THEN Some(cur)
    ELSE LET seg == Head(rest)
             more == Tail(rest)
         IN  IF seg = nDot THEN ResolveFrom(cur, more, hops, rem)
             ELSE IF seg = nDotDot
                  THEN ResolveFrom(IF cur = <<>> THEN cur ELSE Front(cur), more, hops, rem)
             ELSE LET n == NodeAt(cur \o <<seg>>, rem)
                  IN  IF ~n.some THEN None
                      ELSE IF n.v.kind = "link"
                           THEN IF hops = 0 THEN None
                                ELSE ResolveFrom(<<>>, n.v.target \o more, hops - 1, rem)
                      ELSE IF n.v.kind = "file" /\ more # <<>> THEN None
                      ELSE ResolveFrom(cur \o <<seg>>, more, hops, rem)

\* Path::canonicalize
Canonicalize(p, rem) == ResolveFrom(<<>>, p, MaxLinkHops, rem)

\* Path::exists (follows links)
PathExists(p, rem) == Canonicalize(p, rem).some

\* Path::is_dir (follows links)
PathIsDir(p, rem) ==
    LET c == Canonicalize(p, rem)
    IN  c.some /\ BaseFs[c.v].kind = "dir"

\* DirEntry::metadata: the entry itself, links not followed; None on failure
EntryMetadata(p, rem) ==
    LET d == Canonicalize(Front(p), rem)
    IN  IF ~d.some THEN None ELSE NodeAt(d.v \o <<Last(p)>>, rem)

\* the names a listing of the canonical directory d yields, in platform order
Listing(d, rem, rev) ==
    LET names == SelectSeq(NameOrder, LAMBDA n : NodeAt(d \o <<n>>, rem).some)
    IN  IF rev THEN Reverse(names) ELSE names

\* fs::read_dir: the names of the entries, or None on failure
ReadDir(p, rem, unr, rev) ==
    LET c == Canonicalize(p, rem)
    IN  IF ~c.some \/ BaseFs[c.v].kind # "dir" \/ c.v \in unr THEN None
        ELSE Some(Listing(c.v, rem, rev))

----------------------------------------------------------------------------
(* Paths and their text form *)

Slash == "/"

\* the directory relative search paths are resolved against
Cwd == <<>>

RECURSIVE JoinSegments(_)
JoinSegments(p) == IF p = <<>> THEN <<>> ELSE <<Slash>> \o Head(p) \o JoinSegments(Tail(p))

\* Path::to_string_lossy of an absolute path
PathToString(p) == IF p = <<>> THEN <<Slash>> ELSE JoinSegments(p)

RECURSIVE SplitSegments(_, _)
\* the components of a text: split at "/", empty and "." components dropped
SplitSegments(text, cur) ==
    LET done == IF cur = <<>> \/ cur = nDot THEN <<>> ELSE <<cur>>
    IN  IF text = <<>> THEN done
        ELSE IF Head(text) = Slash THEN done \o SplitSegments(Tail(text), <<>>)
        ELSE SplitSegments(Tail(text), Append(cur, Head(text)))

\* Path::new of a text, made absolute; None for the empty text, which names
\* no file
PathNew(text) ==
    IF text = <<>> THEN None
    ELSE IF Head(text) = Slash THEN Some(SplitSegments(text, <<>>))
    ELSE Some(Cwd \o SplitSegments(text, <<>>))

\* slip: the containment test compares the text of the paths
PathStartsWith_Text(p, base) == StartsWith(PathToString(p), PathToString(base))

\* Path::starts_with: whole components are compared
PathStartsWith(p, base) ==
    Len(base) <= Len(p) /\ \A i \in 1..Len(base) : p[i] = base[i]

----------------------------------------------------------------------------
(* The sandbox policy *)

\* "/tmp", "/var/tmp", "/Users/Shared"
AdditionalSafeDirs == <<pTmp, <<nVar, nTmp>>, <<nUsers, nShared>>>>

\* what the dirs crate may answer on a host
DirsConfigs ==
    { [home |-> Some(pHome), document |-> Some(pHome \o <<nD>>),
       download |-> None, desktop |-> None],
      [home |-> Some(<<nL>>), document |-> None,
       download |-> Some(pHome \o <<nS>>), desktop |-> Some(pTmp)],
      [home |-> None, document |-> None, download |-> None, desktop |-> None] }

OptToSeq(o) == IF o.some THEN <<o.v>> ELSE <<>>

RECURSIVE SafeDirsFrom(_, _)
\* the loop over additional_safe_dirs
SafeDirsFrom(ds, rem) ==
    IF ds = <<>> THEN <<>>
    ELSE LET path == Head(ds)
             c == Canonicalize(path, rem)
             here == IF PathExists(path, rem) /\ PathIsDir(path, rem) /\ c.some
                     THEN <<c.v>> ELSE <<>>
         IN  here \o SafeDirsFrom(Tail(ds), rem)

\* get_allowed_search_paths: the vector allowed_paths
GetAllowedSearchPaths(d, rem) ==
    OptToSeq(d.home) \o OptToSeq(d.document) \o OptToSeq(d.download)
    \o OptToSeq(d.desktop) \o SafeDirsFrom(AdditionalSafeDirs, rem)

\* is_path_allowed
IsPathAllowed(path, d, rem) ==
    LET allowed_paths == GetAllowedSearchPaths(d, rem)
    IN  \E i \in 1..Len(allowed_paths) : PathStartsWith(path, allowed_paths[i])

Ok(x) == [ok |-> TRUE, v |-> x]
Err(e) == [ok |-> FALSE, err |-> e]

\* slip: the validation without the is_dir test
ValidateAndNormalizeSearchPath_NoDirTest(search_path, d, rem) ==
    LET path_str == IF search_path.some THEN search_path.v
                    ELSE IF d.home.some THEN PathToString(d.home.v)
                    ELSE <<Slash>>
        path == PathNew(path_str)
    IN  IF ~path.some \/ ~PathExists(path.v, rem) THEN Err("NotExist")
        ELSE LET absolute_path == Canonicalize(path.v, rem)
             IN  IF ~absolute_path.some THEN Err("CannotCanonicalize")
                 ELSE IF ~IsPathAllowed(absolute_path.v, d, rem) THEN Err("NotAllowed")
                 ELSE Ok(PathToString(absolute_path.v))

\* validate_and_normalize_search_path; search_path is an optional text
ValidateAndNormalizeSearchPath(search_path, d, rem) ==
    LET path_str == IF search_path.some THEN search_path.v
                    ELSE IF d.home.some THEN PathToString(d.home.v)
                    ELSE <<Slash>>
        path == PathNew(path_str)
    IN  IF ~path.some \/ ~PathExists(path.v, rem) THEN Err("NotExist")
        ELSE IF ~PathIsDir(path.v, rem) THEN Err("NotDir")
        ELSE LET absolute_path == Canonicalize(path.v, rem)
             IN  IF ~absolute_path.some THEN Err("CannotCanonicalize")
                 ELSE IF ~IsPathAllowed(absolute_path.v, d, rem) THEN Err("NotAllowed")
                 ELSE Ok(PathToString(absolute_path.v))

\* the error kind a message stands for
ErrorKind(e) ==
    CASE e \in {"NotExist", "NotDir", "CannotCanonicalize"} -> "InvalidPath"
      [] e = "NotAllowed" -> "PathNotAllowed"
      [] e = "ReadDir" -> "DirectoryReadError"
      [] e \in {"ReadEntry", "Metadata"} -> "EntryReadError"

----------------------------------------------------------------------------
(* Relevance *)

\* calculate_relevance_score, as the fraction num / den
CalculateRelevanceScore(filename, q) ==
    LET base == IF filename = q THEN 100
                ELSE IF StartsWith(filename, q) THEN 80
                ELSE IF Contains(filename, q) THEN 60
                ELSE 0
        len == ByteLen(filename)
    IN  IF filename # <<>> THEN [num |-> base * len + 20, den |-> len]
        ELSE [num |-> base, den |-> 1]

\* a_score < b_score
ScoreLess(a, b) == a.num * b.den < b.num * a.den

\* slip: the comparator orders by ascending score
GoesBefore_Ascending(b, a, q) ==
    ScoreLess(CalculateRelevanceScore(ToLowercase(b.name), q),
              CalculateRelevanceScore(ToLowercase(a.name), q))

\* the comparator of sort_by says that entry b goes before entry a
GoesBefore(b, a, q) ==
    ScoreLess(CalculateRelevanceScore(ToLowercase(a.name), q),
              CalculateRelevanceScore(ToLowercase(b.name), q))

RECURSIVE InsertSorted(_, _, _)
\* insert e behind every entry that does not go after it (stable)
InsertSorted(sorted, e, q) ==
    IF sorted = <<>> THEN <<e>>
    ELSE IF GoesBefore(e, Head(sorted), q) THEN <<e>> \o sorted
    ELSE <<Head(sorted)>> \o InsertSorted(Tail(sorted), e, q)

RECURSIVE SortByRelevance(_, _)
\* results.sort_by(...): a stable sort, descending by score
SortByRelevance(rs, q) ==
    IF rs = <<>> THEN <<>>
    ELSE InsertSorted(SortByRelevance(Front(rs), q), Last(rs), q)

----------------------------------------------------------------------------
(* search_directory *)

\* slip: only dot files are skipped
IsHidden_DotOnly(file_name) == StartsWith(file_name, <<".">>)

\* the test on the file name that skips hidden and system files
IsHidden(file_name) == StartsWith(file_name, <<".">>) \/ StartsWith(file_name, <<"~">>)

\* slip: the budget test off by one
BudgetReached_OffByOne(res, max_results) == Len(res) > max_results

\* results.len() >= max_results
BudgetReached(res, max_results) == Len(res) >= max_results

\* current_depth < max_depth, the guard of the recursive call
MayDescend(current_depth, max_depth) == current_depth < max_depth

\* slip: the recursive call does not count the level
ChildDepth_Same(current_depth) == current_depth

\* the current_depth argument of the recursive call
ChildDepth(current_depth) == current_depth + 1

\* slip: the recursive call hands its error on with ?
ErrorReachesCaller_Always(n) == TRUE

\* Whether an Err of the innermost of n nested activations reaches the caller
\* of the outermost one: the recursive call discards its result (let _ =),
\* the outermost activation hands it on with the ? operator.
ErrorReachesCaller(n) == n = 1

NoRet == [status |-> "none"]
RetOk == [status |-> "ok"]
RetErr(e) == [status |-> "err", err |-> e]

Failure(kind, dir, path, res) == [kind |-> kind, dir |-> dir, path |-> path, before |-> res]

\* The start of an activation: the test of budget and depth, then read_dir.
Enter(dir, current_depth, res, max_results, max_depth, rem, unr, rev) ==
    IF BudgetReached(res, max_results) \/ current_depth > max_depth
    THEN [kind |-> "skip"]
    ELSE LET entries == ReadDir(dir, rem, unr, rev)
         IN  IF ~entries.some THEN [kind |-> "err"]
             ELSE [kind |-> "frame",
                   frame |-> [dir |-> dir, todo |-> entries.v, depth |-> current_depth]]

\* what the caller of the outermost activation does with its Ok(()):
\* search_files sorts the vector and returns it
Finished(res) == IF call = "search_files" THEN SortByRelevance(res, query) ELSE res

\* The outermost search_directory is called on dir with an empty vector.
BeginWalk(dir, q, max_results, max_depth) ==
    LET e == Enter(dir, 0, <<>>, max_results, max_depth, removed, unreadable, reversed)
    IN  /\ query' = q
        /\ maxResults' = max_results
        /\ maxDepth' = max_depth
        /\ rootDir' = dir
        /\ results' = <<>>
        /\ examined' = {}
        /\ CASE e.kind = "skip" ->
                  /\ pc' = "done"
                  /\ ret' = RetOk
                  /\ stack' = <<>>
                  /\ listed' = {}
                  /\ failures' = {}
             [] e.kind = "err" ->
                  /\ pc' = "done"
                  /\ ret' = RetErr("ReadDir")
                  /\ stack' = <<>>
                  /\ listed' = {dir}
                  /\ failures' = {Failure("ReadDir", dir, dir, <<>>)}
             [] e.kind = "frame" ->
                  /\ pc' = "walk"
                  /\ ret' = NoRet
                  /\ stack' = <<e.frame>>
                  /\ listed' = {dir}
                  /\ failures' = {}

\* The innermost activation returns r (RetOk or RetErr) with the vector res.
FrameReturns(r, res) ==
    IF r.status = "err" /\ ErrorReachesCaller(Len(stack))
    THEN /\ pc' = "done"
         /\ ret' = r
         /\ stack' = <<>>
         /\ results' = res
    ELSE IF Len(stack) = 1
    THEN /\ pc' = "done"
         /\ ret' = r
         /\ stack' = <<>>
         /\ results' = IF r.status = "ok" THEN Finished(res) ELSE res
    ELSE /\ pc' = "walk"
         /\ ret' = ret
         /\ stack' = Front(stack)
         /\ results' = res

----------------------------------------------------------------------------
(* Inputs *)

Queries ==
    { <<>>, <<"/">>, <<"t">>, <<"T">>, <<".">>, <<".", "t">>, <<"s">>,
      <<"~", "t">>, <<"<", "x">> }

SearchPaths ==
    { None,
      Some(PathToString(pHome)),
      Some(PathToString(pHome \o <<nS>>)),
      Some(PathToString(pHome \o <<nU>>)),
      Some(PathToString(pSibling)),
      Some(PathToString(pEtc)),
      Some(PathToString(<<nL>>)),
      Some(PathToString(pHome \o <<nK>>)),
      Some(PathToString(pHome \o <<nDotDot, nDotDot, nEtc>>)),
      Some(PathToString(pHome \o <<nS, nDotDot>>)),
      Some(PathToString(pHome \o <<nT>>)),
      Some(PathToString(<<nX, nX>>)),
      Some(PathToString(<<nVar, nTmp>>)),
      Some(<<>>) }

MaxResultsArgs == {None, Some(0), Some(1), Some(2), Some(101)}

DirectDirs == {pHome, <<nX, nX>>}
DirectQueries == {<<>>, <<"t">>, <<"s">>}
DirectMaxResults == {0, 2, 100}

UnreadableChoices == { {}, {pHome}, {pHome \o <<nU>>} }
FlakyChoices == { {}, {pHome}, {pHome \o <<nS>>} }

----------------------------------------------------------------------------
(* The state machine *)

Init ==
    /\ removed = {}
    /\ unreadable \in UnreadableChoices
    /\ flaky \in FlakyChoices
    /\ reversed \in BOOLEAN
    /\ dirs \in DirsConfigs
    /\ pc = "idle"
    /\ call = "none"
    /\ request = None
    /\ query = <<>>
    /\ maxResults = 0
    /\ maxDepth = 0
    /\ rootDir = <<>>
    /\ stack = <<>>
    /\ results = <<>>
    /\ ret = NoRet
    /\ listed = {}
    /\ examined = {}
    /\ failures = {}
    /\ allowedCheck = None

\* slip: the empty query is not short-circuited
EmptyQuery_Never(sanitized_query) == FALSE

\* the query is empty after sanitizing: Ok(vec![]) at once
EmptyQuery(sanitized_query) == sanitized_query = <<>>

\* std::cmp::min(max_results.unwrap_or(50), 100)
ClampMaxResults(max_results) == Min(IF max_results.some THEN max_results.v ELSE 50, 100)

\* the max_depth search_files passes
SearchFilesMaxDepth == 3

\* the argument and the answer of is_path_allowed during a validation, with
\* the vector get_allowed_search_paths gave it
AllowedCheckOf(search_path) ==
    LET path_str == IF search_path.some THEN search_path.v
                    ELSE IF dirs.home.some THEN PathToString(dirs.home.v)
                    ELSE <<Slash>>
        path == PathNew(path_str)
    IN  IF path.some /\ PathIsDir(path.v, removed)
        THEN LET c == Canonicalize(path.v, removed).v
             IN  Some([path |-> c, allowed |-> IsPathAllowed(c, dirs, removed),
                       roots |-> GetAllowedSearchPaths(dirs, removed)])
        ELSE None

\* the command search_files(query, search_path, max_results)
SearchFiles(q, search_path, max_results) ==
    /\ pc = "idle"
    /\ call' = "search_files"
    /\ request' = Some([query |-> q, search_path |-> search_path,
                        max_results |-> max_results])
    /\ UNCHANGED <<removed, unreadable, flaky, reversed, dirs>>
    /\ LET sanitized_query == SanitizeSearchQuery(q)
       IN  IF EmptyQuery(sanitized_query)
           THEN /\ pc' = "done"
                /\ ret' = RetOk
                /\ results' = <<>>
                /\ UNCHANGED <<query, maxResults, maxDepth, rootDir, stack,
                               listed, examined, failures, allowedCheck>>
           ELSE LET search_dir == ValidateAndNormalizeSearchPath(search_path, dirs, removed)
                IN  /\ allowedCheck' = AllowedCheckOf(search_path)
                    /\ IF ~search_dir.ok
                       THEN /\ pc' = "done"
                            /\ ret' = RetErr(search_dir.err)
                            /\ UNCHANGED <<query, maxResults, maxDepth, rootDir,
                                           stack, results, listed, examined, failures>>
                       ELSE BeginWalk(PathNew(search_dir.v).v,
                                      ToLowercase(sanitized_query),
                                      ClampMaxResults(max_results),
                                      SearchFilesMaxDepth)

\* search_directory called directly, as the tests do, with an empty vector
\* and current_depth 0
SearchDirectory(dir, q, max_results, max_depth) ==
    /\ pc = "idle"
    /\ call' = "search_directory"
    /\ request' = Some([dir |-> dir, query |-> q, max_results |-> max_results,
                        max_depth |-> max_depth])
    /\ UNCHANGED <<removed, unreadable, flaky, reversed, dirs, allowedCheck>>
    /\ BeginWalk(dir, q, max_results, max_depth)

\* One iteration of the for loop of the innermost activation, the start of
\* the recursive call included.
ProcessEntry ==
    /\ pc = "walk"
    /\ LET top == Last(stack)
       IN  /\ top.todo # <<>>
           /\ ~BudgetReached(results, maxResults)
           /\ LET file_name == Head(top.todo)
                  path == top.dir \o <<file_name>>
                  advanced == [stack EXCEPT ![Len(stack)].todo = Tail(top.todo)]
                  here == Canonicalize(top.dir, removed)
              IN  \E item_ok \in IF here.some /\ here.v \in flaky THEN BOOLEAN ELSE {TRUE} :
                    IF ~item_ok
                    THEN /\ failures' = failures \cup
                                {Failure("ReadEntry", top.dir, top.dir, results)}
                         /\ FrameReturns(RetErr("ReadEntry"), results)
                         /\ UNCHANGED <<listed, examined>>
                    ELSE
                    /\ examined' = examined \cup {path}
                    /\ IF IsHidden(file_name)
                       THEN /\ stack' = advanced
                            /\ UNCHANGED <<pc, ret, results, listed, failures>>
                       ELSE
                       LET matched == Contains(ToLowercase(file_name), query)
                           metadata == EntryMetadata(path, removed)
                       IN  IF matched /\ ~metadata.some
                           THEN /\ failures' = failures \cup
                                       {Failure("Metadata", top.dir, path, results)}
                                /\ FrameReturns(RetErr("Metadata"), results)
                                /\ UNCHANGED listed
                           ELSE
                           LET pushed == IF matched
                                         THEN Append(results,
                                                [name |-> file_name,
                                                 path |-> PathToString(path),
                                                 is_dir |-> metadata.v.kind = "dir"])
                                         ELSE results
                           IN  IF PathIsDir(path, removed) /\ MayDescend(top.depth, maxDepth)
                               THEN LET e == Enter(path, ChildDepth(top.depth), pushed,
                                                   maxResults, maxDepth,
                                                   removed, unreadable, reversed)
                                    IN  CASE e.kind = "skip" ->
                                               /\ stack' = advanced
                                               /\ results' = pushed
                                               /\ UNCHANGED <<pc, ret, listed, failures>>
                                          [] e.kind = "err" ->
                                               /\ listed' = listed \cup {path}
                                               /\ failures' = failures \cup
                                                      {Failure("ReadDir", path, path, pushed)}
                                               /\ IF ErrorReachesCaller(Len(stack) + 1)
                                                  THEN /\ pc' = "done"
                                                       /\ ret' = RetErr("ReadDir")
                                                       /\ stack' = <<>>
                                                       /\ results' = pushed
                                                  ELSE /\ stack' = advanced
                                                       /\ results' = pushed
                                                       /\ UNCHANGED <<pc, ret>>
                                          [] e.kind = "frame" ->
                                               /\ stack' = Append(advanced, e.frame)
                                               /\ results' = pushed
                                               /\ listed' = listed \cup {path}
                                               /\ UNCHANGED <<pc, ret, failures>>
                               ELSE /\ stack' = advanced
                                    /\ results' = pushed
                                    /\ UNCHANGED <<pc, ret, listed, failures>>
    /\ UNCHANGED <<removed, unreadable, flaky, reversed, dirs, call, request,
                   query, maxResults, maxDepth, rootDir, allowedCheck>>

\* The for loop of the innermost activation ends (no entry left, or the
\* break on a full vector) and the activation returns Ok(()).
LoopEnd ==
    /\ pc = "walk"
    /\ Last(stack).todo = <<>> \/ BudgetReached(results, maxResults)
    /\ FrameReturns(RetOk, results)
    /\ UNCHANGED <<removed, unreadable, flaky, reversed, dirs, call, request,
                   query, maxResults, maxDepth, rootDir, listed, examined,
                   failures, allowedCheck>>

\* Another process removes a file while the search runs.
EnvRemove(p) ==
    /\ pc = "walk"
    /\ p \notin removed
    /\ removed' = removed \cup {p}
    /\ UNCHANGED <<unreadable, flaky, reversed, dirs, pc, call, request, query,
                   maxResults, maxDepth, rootDir, stack, results, ret, listed,
                   examined, failures, allowedCheck>>

Next ==
    \/ \E q \in Queries, sp \in SearchPaths, mr \in MaxResultsArgs : SearchFiles(q, sp, mr)
    \/ \E d \in DirectDirs, q \in DirectQueries, mr \in DirectMaxResults,
          md \in 0..MaxDepthArg : SearchDirectory(d, q, mr, md)
    \/ ProcessEntry
    \/ LoopEnd
    \/ \E p \in Removable : EnvRemove(p)

Spec == Init /\ [][Next]_vars

----------------------------------------------------------------------------
(* Properties *)

Range(f) == {f[i] : i \in DOMAIN f}

\* c equals r or lies below it, segment by segment
SegmentDescendant(c, r) == \E k \in 0..Len(c) : SubSeq(c, 1, k) = r

\* the name starts with "." or "~"
DotOrTilde(name) == name # <<>> /\ name[1] \in {".", "~"}

\* the path of a returned entry, as segments
EntryPath(e) == PathNew(e.path).v

\* the path search_files resolves: search_path, else home, else "/"
RequestedPath ==
    IF request.v.search_path.some THEN PathNew(request.v.search_path.v)
    ELSE IF dirs.home.some THEN Some(dirs.home.v)
    ELSE Some(<<>>)

SearchFilesDone == pc = "done" /\ call = "search_files"

\* C1: every entry a successful search_files returns has a path that, once
\* canonicalized, equals or lies segment-wise below a member of AllowedRoots,
\* whatever links the tree holds below the search root.
C1_ReturnedPathsWithinAllowedRoots ==
    (SearchFilesDone /\ ret.status = "ok") =>
        \A i \in 1..Len(results) :
            LET c == Canonicalize(EntryPath(results[i]), removed)
            IN  c.some =>
                    \E r \in Range(GetAllowedSearchPaths(dirs, removed)) :
                        SegmentDescendant(c.v, r)

\* C2: the result vector never holds more than min(max_results, 100)
\* entries, max_results being 50 when absent; for search_directory called
\* directly, never more than its max_results.
C2_ResultCountWithinBudget ==
    /\ call = "search_files" =>
          LET m == request.v.max_results
              cap == IF ~m.some THEN 50 ELSE IF m.v < 100 THEN m.v ELSE 100
          IN  Len(results) <= cap
    /\ call = "search_directory" => Len(results) <= request.v.max_results

C2_Witness ==
    /\ SearchFilesDone
    /\ ret.status = "ok"
    /\ request.v.max_results = Some(2)
    /\ Len(results) = 2
    /\ Cardinality(listed) > 1
    /\ \E i \in 1..2 : Len(EntryPath(results[i])) > Len(rootDir) + 1

\* C3: when the sanitized query is empty, search_files returns Ok with no
\* entry, without validating search_path and without listing a directory.
C3_EmptyQueryShortCircuits ==
    (SearchFilesDone /\ SelectSeq(request.v.query, QueryCharAllowed) = <<>>) =>
        /\ ret.status = "ok"
        /\ results = <<>>
        /\ listed = {}
        /\ ~allowedCheck.some

C3_Witness ==
    /\ SearchFilesDone
    /\ request.v.query = <<"/">>
    /\ request.v.search_path = Some(PathToString(<<nX, nX>>))
    /\ ret.status = "ok"

C5_SegmentWiseContainment ==
    allowedCheck.some =>
        (allowedCheck.v.allowed <=>
            \E r \in Range(allowedCheck.v.roots) :
                SegmentDescendant(allowedCheck.v.path, r))

C5_Witness ==
    /\ allowedCheck.some
    /\ allowedCheck.v.path = pSibling
    /\ pHome \in Range(allowedCheck.v.roots)
    /\ ~allowedCheck.v.allowed
    /\ ret = RetErr("NotAllowed")

\* C6: every member of the vector get_allowed_search_paths computes is a
\* canonical path.
C6_AllowedRootsCanonical ==
    allowedCheck.some =>
        \A r \in Range(allowedCheck.v.roots) : Canonicalize(r, removed) = Some(r)

\* a failure to list a directory other than the one the walk started in
NonRootListFailure(f) == f.kind = "ReadDir" /\ f.dir # rootDir

\* the names in the directory at path d now
NamesIn(d) ==
    LET c == Canonicalize(d, removed)
    IN  IF c.some THEN {n \in Range(NameOrder) : NodeAt(c.v \o <<n>>, removed).some}
        ELSE {}

\* C7: a failure to list the root directory makes the walk return an error
\* with no entry collected; a failure to list a directory below it is
\* swallowed: what was collected before is kept, the walk does not return an
\* error unless something failed in the root directory itself, and the
\* siblings of the failed directory are still visited.
C7_ListFailures ==
    \A f \in failures :
        /\ (f.kind = "ReadDir" /\ f.dir = rootDir) =>
              /\ pc = "done"
              /\ ret.status = "err"
              /\ results = <<>>
        /\ NonRootListFailure(f) =>
              /\ Range(f.before) \subseteq Range(results)
              /\ ret.status = "err" => \E g \in failures : g.dir = rootDir
              /\ (/\ pc = "done"
                  /\ ret.status = "ok"
                  /\ Len(results) < maxResults
                  /\ ~\E g \in failures : g.dir = Front(f.dir))
                 => \A n \in NamesIn(Front(f.dir)) : Front(f.dir) \o <<n>> \in examined

C7_Witness ==
    /\ pc = "done"
    /\ ret.status = "ok"
    /\ \E f \in failures :
          /\ NonRootListFailure(f)
          /\ f.before # <<>>
          /\ Len(results) > Len(f.before)
          /\ \A g \in failures : g = f

\* C8: when a matched entry is removed between the listing and the read of
\* its metadata, at any depth, the call still returns Ok and only that entry
\* is missing.
C8_RemovalIsPerEntry ==
    (pc = "done" /\ failures # {} /\ \A f \in failures : f.kind = "Metadata") =>
        /\ ret.status = "ok"
        /\ Len(results) < maxResults =>
              \A f \in failures :
                  \A n \in NamesIn(f.dir) : f.dir \o <<n>> \in examined

\* the max_depth of the invocation
DepthLimit == IF call = "search_directory" THEN request.v.max_depth ELSE 3

\* C9: no directory deeper than max_depth below the root is listed and no
\* entry of such a directory is returned; search_files walks with depth 3.
C9_DepthLimit ==
    pc # "idle" =>
        /\ \A d \in listed : Len(d) - Len(rootDir) <= DepthLimit
        /\ \A i \in 1..Len(results) :
              Len(EntryPath(results[i])) - Len(rootDir) - 1 <= DepthLimit
        /\ listed # {} => maxDepth = DepthLimit

C9_Witness ==
    /\ SearchFilesDone
    /\ ret.status = "ok"
    /\ rootDir = pHome
    /\ pHome \o <<nS, nS, nS>> \in listed
    /\ pHome \o <<nS, nS, nS, nS>> \notin listed
    /\ PathIsDir(pHome \o <<nS, nS, nS, nS>>, removed)
    /\ \E i \in 1..Len(results) : EntryPath(results[i]) = pHome \o <<nS, nS, nS, nT>>

LengthOf(s) == Len(s) + 2 * Cardinality({i \in 1..Len(s) : s[i] \in Ideographs})

\* the base value of the score: exact 100, else prefix 80, else substring 60
BaseValue(name, q) ==
    IF name = q THEN 100
    ELSE IF \E k \in 0..Len(name) : SubSeq(name, 1, k) = q THEN 80
    ELSE IF \E i \in 1..(Len(name) + 1) : \E j \in (i - 1)..Len(name) :
                SubSeq(name, i, j) = q THEN 60
    ELSE 0

\* score(x) < score(y), the score being base + 20 / length (bonus 0 for the
\* empty name), compared exactly
ScoreBelow(x, y, q) ==
    LET lx == LengthOf(x)
        ly == LengthOf(y)
        nx == IF lx = 0 THEN BaseValue(x, q) ELSE BaseValue(x, q) * lx + 20
        ny == IF ly = 0 THEN BaseValue(y, q) ELSE BaseValue(y, q) * ly + 20
        dx == IF lx = 0 THEN 1 ELSE lx
        dy == IF ly = 0 THEN 1 ELSE ly
    IN  nx * dy < ny * dx

\* the lowercased sanitized query of a search_files request
LowerQuery == ToLowercase(SelectSeq(request.v.query, QueryCharAllowed))

\* how often e occurs in the sequence s
Occurrences(e, s) == Cardinality({i \in 1..Len(s) : s[i] = e})

\* t holds the entries of s, each as often
SameEntries(s, t) ==
    /\ Len(s) = Len(t)
    /\ \A e \in Range(s) \cup Range(t) : Occurrences(e, s) = Occurrences(e, t)

\* the sequence search_files returns is in non-increasing order of score
ReturnedInScoreOrder ==
    (SearchFilesDone /\ ret.status = "ok") =>
        \A i \in 1..Len(results) : \A j \in i..Len(results) :
            ~ScoreBelow(ToLowercase(results[i].name), ToLowercase(results[j].name),
                        LowerQuery)

\* the step in which search_files sorts and returns keeps the entries
SortKeepsEntries ==
    (call = "search_files" /\ pc = "walk" /\ pc' = "done" /\ ret'.status = "ok")
        => SameEntries(results, results')

\* C11: the sequence search_files returns is in non-increasing order of the
\* score base + 20 / length of the lowercased name (base 100 for an exact
\* match, else 80 for a prefix, else 60 for a substring, else 0; the length
\* counted in bytes as str::len does), and the sort neither adds nor removes
\* an entry.
C11_SortedByRelevance == []ReturnedInScoreOrder /\ [][SortKeepsEntries]_vars

C11_Witness ==
    /\ SearchFilesDone
    /\ ret.status = "ok"
    /\ rootDir = pTmp
    /\ request.v.query = <<"T">>
    /\ Len(results) = 3
    /\ results[1].name = nT
    /\ results[2].name = nXXT
    /\ results[3].name = nIdeoT

\* q occurs in s as a run of consecutive characters
HasSubstring(s, q) ==
    \E i \in 1..(Len(s) + 1) : \E j \in (i - 1)..Len(s) : SubSeq(s, i, j) = q

\* the names in the directory at path d that do not start with "." or "~"
VisibleNamesIn(d) == {n \in NamesIn(d) : ~DotOrTilde(n)}

RECURSIVE EntriesBelow(_, _)
\* the entries reached from the directory d at the given depth through
\* visible directories of depth at most DepthLimit
EntriesBelow(d, depth) ==
    LET names == VisibleNamesIn(d)
        subdirs == {n \in names : depth < DepthLimit /\ PathIsDir(d \o <<n>>, removed)}
    IN  {d \o <<n>> : n \in names}
        \cup UNION {EntriesBelow(d \o <<n>>, depth + 1) : n \in subdirs}

\* the query the walk matches names against
WalkQuery == IF call = "search_files" THEN LowerQuery ELSE request.v.query

\* the result budget of the invocation
WalkBudget ==
    IF call = "search_files"
    THEN LET m == request.v.max_results
         IN  IF ~m.some THEN 50 ELSE IF m.v < 100 THEN m.v ELSE 100
    ELSE request.v.max_results

\* the entries the walk from rootDir is to return
MatchingEntries ==
    {p \in EntriesBelow(rootDir, 0) : HasSubstring(ToLowercase(Last(p)), WalkQuery)}

\* a walk has run and returned Ok, nothing failed and nothing was removed
\* meanwhile
CleanWalkDone ==
    /\ pc = "done"
    /\ ret.status = "ok"
    /\ call = "search_directory" \/ (call = "search_files" /\ LowerQuery # <<>>)
    /\ failures = {}
    /\ removed = {}

====
